---- MODULE Spec2Model ----
(***************************************************************************)
(* pass-utils (src/passutils.js): constrained random password generation.  *)
(*                                                                         *)
(* A string is a sequence of one-character strings.  An options or         *)
(* requirements object is the record obtained after the destructuring      *)
(* defaults of generatePassword have been applied ({} is the record of     *)
(* all defaults).  Array indices (i, rnd, bytes[i] % n) are 0-based as in  *)
(* the source; the sequences that hold the characters are 1-based.         *)
(***************************************************************************)
EXTENDS Integers, Sequences, FiniteSets, TLC

(***************************************************************************)
(* Bounds of the model.                                                    *)
(***************************************************************************)
MaxLen == 3
MaxMin == 2
MaxAmount == 2
MaxBatchLen == 1
MaxStrLen == 3

(***************************************************************************)
(* Possible characters (passutils.js lines 3-7).                           *)
(***************************************************************************)
uppercase ==
  <<"A", "B", "C", "D", "E", "F", "G", "H", "I", "J", "K", "L", "M",
    "N", "O", "P", "Q", "R", "S", "T", "U", "V", "W", "X", "Y", "Z">>

lowercase ==
  <<"a", "b", "c", "d", "e", "f", "g", "h", "i", "j", "k", "l", "m",
    "n", "o", "p", "q", "r", "s", "t", "u", "v", "w", "x", "y", "z">>

numbers ==
  <<"0", "1", "2", "3", "4", "5", "6", "7", "8", "9">>

symbols ==
  <<"!", "@", "#", "$", "%", "^", "&", "*", "(", ")", "+", "_", "-",
    "=", "}", "{", "[", "]", "|", ":", ";", "\"", "/", "?", ".", ">",
    "<", ",", "backtick", "~">>

\* The character class of the regular expression of line 7.  The grave
\* accent is written "backtick": it is one character of the program.
similar == {"i", "l", "L", "I", "|", "backtick", "o", "O", "0"}

\* The keys of possibleCharacters, in the order of the object literal.
Keys == <<"lowercase", "uppercase", "numbers", "symbols">>

KeySet == {Keys[k] : k \in 1..Len(Keys)}

\* The fixed alphabet bound to each key.
Alphabet(key) ==
  CASE key = "lowercase" -> lowercase
    [] key = "uppercase" -> uppercase
    [] key = "numbers" -> numbers
    [] key = "symbols" -> symbols

\* The requirements field that belongs to each key.
MinField(key) ==
  CASE key = "lowercase" -> "minLower"
    [] key = "uppercase" -> "minUpper"
    [] key = "numbers" -> "minNumbers"
    [] key = "symbols" -> "minSymbols"

(***************************************************************************)
(* Regular expressions of line 133: the character codes that order a       *)
(* range, the escaping replace, and the members of a character class.      *)
(***************************************************************************)
Ascii ==
  <<"!", "\"", "#", "$", "%", "&", "'", "(", ")", "*", "+", ",", "-",
    ".", "/", "0", "1", "2", "3", "4", "5", "6", "7", "8", "9", ":",
    ";", "<", "=", ">", "?", "@", "A", "B", "C", "D", "E", "F", "G",
    "H", "I", "J", "K", "L", "M", "N", "O", "P", "Q", "R", "S", "T",
    "U", "V", "W", "X", "Y", "Z", "[", "\\", "]", "^", "_", "backtick", "a",
    "b", "c", "d", "e", "f", "g", "h", "i", "j", "k", "l", "m", "n",
    "o", "p", "q", "r", "s", "t", "u", "v", "w", "x", "y", "z", "{",
    "|", "}", "~">>

AsciiSet == {Ascii[k] : k \in 1..Len(Ascii)}

\* Position of a character in Ascii; its character code is 32 more.
Code(c) == CHOOSE k \in 1..Len(Ascii) : Ascii[k] = c

\* The characters matched by /[-/\\^$*+?.()|[\]{}]/g.
EscapeSpecials ==
  {"-", "/", "\\", "^", "$", "*", "+", "?", ".", "(", ")", "|", "[", "]",
   "{", "}"}

\* exclude.replace(/[-/\\^$*+?.()|[\]{}]/g, "\\$&")
RECURSIVE EscapeFrom(_, _)
EscapeFrom(exclude, k) ==
  IF k > Len(exclude) THEN <<>>
  ELSE (IF exclude[k] \in EscapeSpecials
          THEN <<"\\", exclude[k]>> ELSE <<exclude[k]>>)
       \o EscapeFrom(exclude, k + 1)

EscapeExclude(exclude) == EscapeFrom(exclude, 1)

\* One atom of a character class body starting at position k: a backslash
\* makes the next character literal.
AtomAt(body, k) ==
  IF body[k] = "\\" /\ k < Len(body)
    THEN [ch |-> body[k + 1], next |-> k + 2]
    ELSE [ch |-> body[k], next |-> k + 1]

\* The members of the class body from position k on: an unescaped hyphen
\* between two atoms denotes the range of character codes between them.
RECURSIVE ClassMembers(_, _)
ClassMembers(body, k) ==
  IF k > Len(body) THEN {}
  ELSE LET a == AtomAt(body, k)
       IN IF a.next < Len(body) /\ body[a.next] = "-"
            THEN LET b == AtomAt(body, a.next + 1)
                 IN {c \in AsciiSet : Code(a.ch) <= Code(c) /\ Code(c) <= Code(b.ch)}
                    \cup ClassMembers(body, b.next)
            ELSE {a.ch} \cup ClassMembers(body, a.next)

\* The set of characters matched by the RegExp built from [body] with the
\* flag g: a leading unescaped caret negates the class.
CharClass(body) ==
  IF body # <<>> /\ body[1] = "^"
    THEN AsciiSet \ ClassMembers(body, 2)
    ELSE ClassMembers(body, 1)

excludeRegex(exclude) == CharClass(EscapeExclude(exclude))

\* A replace that deletes one match only, as a regular expression without
\* the g flag does.
ReplaceFirst(str, class) ==
  IF \E k \in 1..Len(str) : str[k] \in class
    THEN LET f == CHOOSE k \in 1..Len(str) :
                    /\ str[k] \in class
                    /\ \A m \in 1..(k - 1) : str[m] \notin class
         IN SubSeq(str, 1, f - 1) \o SubSeq(str, f + 1, Len(str))
    ELSE str

\* str.replace(regex, "") for a global character-class regex.
Replace(str, class) == SelectSeq(str, LAMBDA c : c \notin class)

(***************************************************************************)
(* Errors.                                                                 *)
(***************************************************************************)
NoError == [type |-> "none", name |-> "", msg |-> "", n |-> 0]

IsNumber(value) == value \in Int

\* validateInput(value, minValue, name): the error it throws, or NoError.
validateInput(value, minValue, name) ==
  IF ~IsNumber(value)
    THEN [type |-> "TypeError", name |-> name, msg |-> "must be a number", n |-> 0]
    ELSE IF value < minValue
      THEN [type |-> "RangeError", name |-> name,
            msg |-> "must be equal at least", n |-> minValue]
      ELSE NoError

TooShortError(required) ==
  [type |-> "Error", name |-> "",
   msg |-> "Your password length is too short to meet your requirements. Change password length to at least",
   n |-> required]

OptionsError ==
  [type |-> "Error", name |-> "",
   msg |-> "Your password options do not meet the requirements.", n |-> 0]

EmptyPoolError ==
  [type |-> "RangeError", name |-> "",
   msg |-> "Character pool is empty. Enable at least one character type.", n |-> 0]

ExcludedError ==
  [type |-> "Error", name |-> "",
   msg |-> "You excluded characters that are required to generate a password with the specified requirements.",
   n |-> 0]

\* The first error of a sequence of checks made in order.
RECURSIVE FirstError(_)
FirstError(errs) ==
  IF errs = <<>> THEN NoError
  ELSE IF Head(errs) # NoError THEN Head(errs) ELSE FirstError(Tail(errs))

\* A number used as a condition.
Truthy(n) == n # 0

(***************************************************************************)
(* generatePassword, lines 88-124: validation of the arguments.            *)
(***************************************************************************)
requiredPasswordLength(req) ==
  req.minUpper + req.minLower + req.minNumbers + req.minSymbols

LengthTooShort_inclusive(required, len) == required >= len

\* requiredPasswordLength > length
LengthTooShort(required, len) == required > len

\* The condition of lines 117-122.
RequirementForDisabled(opt, req) ==
  \/ (~opt.uppercase /\ Truthy(req.minUpper))
  \/ (~opt.lowercase /\ Truthy(req.minLower))
  \/ (~opt.numbers /\ Truthy(req.minNumbers))
  \/ (~opt.symbols /\ Truthy(req.minSymbols))

ValidateArguments(len, opt, req) ==
  LET e1 == validateInput(len, 1, "Password length")
      e2 == validateInput(req.minUpper, 0, "Required uppercase characters")
      e3 == validateInput(req.minLower, 0, "Required lowercase characters")
      e4 == validateInput(req.minNumbers, 0, "Required number characters")
      e5 == validateInput(req.minSymbols, 0, "Required symbol characters")
      e == FirstError(<<e1, e2, e3, e4, e5>>)
  IN IF e # NoError THEN e
     ELSE IF LengthTooShort(requiredPasswordLength(req), len)
       THEN TooShortError(requiredPasswordLength(req))
       ELSE IF RequirementForDisabled(opt, req) THEN OptionsError ELSE NoError

(***************************************************************************)
(* generatePassword, lines 126-162: the character pools and their checks.  *)
(***************************************************************************)
\* Lines 126-130.
EnabledCharacters(opt) ==
  [key \in KeySet |-> IF opt[key] THEN Alphabet(key) ELSE <<>>]

ApplyExclude_first(pc, exclude) ==
  IF exclude # <<>>
    THEN [key \in KeySet |-> ReplaceFirst(pc[key], excludeRegex(exclude))]
    ELSE pc

\* Lines 132-137.
ApplyExclude(pc, exclude) ==
  IF exclude # <<>>
    THEN [key \in KeySet |-> Replace(pc[key], excludeRegex(exclude))]
    ELSE pc

\* Lines 139-143.
ApplySimilar(pc, useSimilar) ==
  IF ~useSimilar
    THEN [key \in KeySet |-> Replace(pc[key], similar)]
    ELSE pc

BuildPossibleCharacters(opt) ==
  ApplySimilar(ApplyExclude(EnabledCharacters(opt), opt.exclude), opt.similar)

\* Lines 144-148.
BuildCharSet(pc) ==
  pc.lowercase \o pc.uppercase \o pc.numbers \o pc.symbols

CharSetEmpty_never(cs) == FALSE

\* !charSet
CharSetEmpty(cs) == Len(cs) = 0

RequirementExcluded_never(pc, req) == FALSE

\* The condition of lines 153-158.
RequirementExcluded(pc, req) ==
  \/ (req.minLower > 0 /\ Len(pc.lowercase) = 0)
  \/ (req.minUpper > 0 /\ Len(pc.uppercase) = 0)
  \/ (req.minNumbers > 0 /\ Len(pc.numbers) = 0)
  \/ (req.minSymbols > 0 /\ Len(pc.symbols) = 0)

CheckPools(pc, cs, req) ==
  IF CharSetEmpty(cs) THEN EmptyPoolError
  ELSE IF RequirementExcluded(pc, req) THEN ExcludedError ELSE NoError

(***************************************************************************)
(* randomBytes and getRandomString, lines 14-18 and 43-50.                 *)
(***************************************************************************)
\* An element of a Uint32Array, written as its two 16-bit halves: the value
\* is hi * 65536 + lo.
Uint32(hi, lo) == [hi |-> hi, lo |-> lo]

\* value % n for a Uint32 value and 0 < n.
Mod(value, n) == (((value.hi % n) * (65536 % n)) + value.lo) % n

\* Values that crypto.getRandomValues may store in one element: 0 and
\* 4294967295.
RandomValues == {Uint32(0, 0), Uint32(65535, 65535)}

\* randomBytes(size): the arrays it may return.
randomBytes(size) == [1..size -> RandomValues]

\* What "str += charPool[index]" appends when the index is NaN (an empty
\* charPool makes bytes[i] % 0 = NaN): the text of the value undefined.
Undefined == <<"u", "n", "d", "e", "f", "i", "n", "e", "d">>

\* str += charPool[bytes[i] % charPool.length]
DrawnCharacter(charPool, byte) ==
  IF Len(charPool) = 0 THEN Undefined
  ELSE <<charPool[Mod(byte, Len(charPool)) + 1]>>

RECURSIVE DrawFrom(_, _, _, _)
DrawFrom(charPool, len, bytes, k) ==
  IF k >= len THEN <<>>
  ELSE DrawnCharacter(charPool, bytes[k + 1]) \o DrawFrom(charPool, len, bytes, k + 1)

\* getRandomString(charPool, length) when randomBytes returned bytes.
getRandomString(charPool, len, bytes) == DrawFrom(charPool, len, bytes, 0)

RequiredBlock_short(field, charPool, required, bytes) ==
  IF Truthy(field) THEN getRandomString(charPool, required - 1, bytes) ELSE <<>>

\* requirements.minX ? getRandomString(possibleCharacters.x, requiredX) : ""
RequiredBlock(field, charPool, required, bytes) ==
  IF Truthy(field) THEN getRandomString(charPool, required, bytes) ELSE <<>>

\* The arrays randomBytes returns to the calls of lines 165-170; a call that
\* is not made gets the empty array.
BytesOf(field, required) ==
  IF Truthy(field) THEN randomBytes(required) ELSE {<<>>}

AssemblyBytes(len, req) ==
  [lowercase : BytesOf(req.minLower, req.minLower),
   uppercase : BytesOf(req.minUpper, req.minUpper),
   numbers : BytesOf(req.minNumbers, req.minNumbers),
   symbols : BytesOf(req.minSymbols, req.minSymbols),
   filler : randomBytes(len - requiredPasswordLength(req))]

\* Number of random values obtained by the calls of lines 165-170.
ValuesDrawn(b) ==
  Len(b.lowercase) + Len(b.uppercase) + Len(b.numbers) + Len(b.symbols)
    + Len(b.filler)

\* Lines 163-170: the password before it is shuffled.
AssemblePassword(pc, cs, len, req, b) ==
  RequiredBlock(req.minLower, pc.lowercase, req.minLower, b.lowercase)
    \o RequiredBlock(req.minUpper, pc.uppercase, req.minUpper, b.uppercase)
    \o RequiredBlock(req.minNumbers, pc.numbers, req.minNumbers, b.numbers)
    \o RequiredBlock(req.minSymbols, pc.symbols, req.minSymbols, b.symbols)
    \o getRandomString(cs, len - requiredPasswordLength(req), b.filler)

(***************************************************************************)
(* shuffle, lines 25-36.                                                   *)
(***************************************************************************)
RndRange_exclusive(idx) == 0..(idx - 1)

\* The values of Math.floor(Math.random() * (i + 1)).
RndRange(idx) == 0..idx

ShuffleSwap_overwrite(a, idx, rnd) == [a EXCEPT ![idx + 1] = a[rnd + 1]]

\* [arr[i], arr[rnd]] = [arr[rnd], arr[i]]
ShuffleSwap(a, idx, rnd) ==
  [a EXCEPT ![idx + 1] = a[rnd + 1], ![rnd + 1] = a[idx + 1]]

\* The sequences of values rnd takes in a shuffle of n characters:
\* choices[idx] is the value taken in the iteration with i = idx.
ChoiceSeqs(n) ==
  {c \in [1..(n - 1) -> 0..(n - 1)] : \A idx \in 1..(n - 1) : c[idx] \in RndRange(idx)}

\* The loop of lines 31-34 from i = idx down to 1 under the given choices.
RECURSIVE ShuffleFrom(_, _, _)
ShuffleFrom(a, idx, choices) ==
  IF idx > 0 THEN ShuffleFrom(ShuffleSwap(a, idx, choices[idx]), idx - 1, choices)
  ELSE a

\* shuffle(str) under the given choices.
ShuffleWith(s, choices) == ShuffleFrom(s, Len(s) - 1, choices)

\* Everything shuffle(str) may return.
ShuffleResults(s) == {ShuffleWith(s, c) : c \in ChoiceSeqs(Len(s))}

(***************************************************************************)
(* generatePassword as one call: its error, or what it may return.         *)
(***************************************************************************)
GeneratePasswordError(len, opt, req) ==
  LET e == ValidateArguments(len, opt, req)
      pc == BuildPossibleCharacters(opt)
  IN IF e # NoError THEN e ELSE CheckPools(pc, BuildCharSet(pc), req)

GeneratePasswordReturns(len, opt, req) ==
  LET pc == BuildPossibleCharacters(opt)
  IN UNION {ShuffleResults(AssemblePassword(pc, BuildCharSet(pc), len, req, b)) :
              b \in AssemblyBytes(len, req)}

LoopContinues_inclusive(idx, amt) == idx <= amt

\* i < amount
LoopContinues(idx, amt) == idx < amt

\* Lines 196-197.
ValidateBatch(amt, len) ==
  FirstError(<<validateInput(len, 1, "Password length"),
               validateInput(amt, 1, "Amount of passwords")>>)

(***************************************************************************)
(* The inputs of the calls.                                                *)
(***************************************************************************)
Lengths == 0..MaxLen

MinValues == (-1)..MaxMin

\* Exclusion strings: none, and one that holds pattern-special characters,
\* letters and every digit.
ExcludeSample ==
  <<"^", "a", "-", "c", "]", "0", "1", "2", "3", "4", "5", "6", "7", "8", "9">>

Excludes == {<<>>, ExcludeSample}

OptionsSet ==
  [uppercase : BOOLEAN, lowercase : BOOLEAN, numbers : BOOLEAN,
   symbols : BOOLEAN, similar : BOOLEAN, exclude : Excludes]

RequirementsSet ==
  [minUpper : MinValues, minLower : MinValues, minNumbers : MinValues,
   minSymbols : MinValues]

DefaultOptions ==
  [uppercase |-> TRUE, lowercase |-> TRUE, numbers |-> TRUE, symbols |-> TRUE,
   similar |-> TRUE, exclude |-> <<>>]

DefaultRequirements ==
  [minUpper |-> 0, minLower |-> 0, minNumbers |-> 0, minSymbols |-> 0]

NoCharacters == [key \in KeySet |-> <<>>]

\* The options of the batch calls: the defaults, the options of the README
\* example, and options that disable or empty classes.
BatchOptionsSet ==
  {DefaultOptions,
   [DefaultOptions EXCEPT !.symbols = FALSE],
   [DefaultOptions EXCEPT !.similar = FALSE, !.exclude = ExcludeSample],
   [DefaultOptions EXCEPT !.uppercase = FALSE, !.lowercase = FALSE, !.symbols = FALSE],
   [DefaultOptions EXCEPT !.uppercase = FALSE, !.lowercase = FALSE, !.symbols = FALSE,
                          !.exclude = ExcludeSample],
   [DefaultOptions EXCEPT !.uppercase = FALSE, !.lowercase = FALSE, !.symbols = FALSE,
                          !.numbers = FALSE]}

BatchLengths == 0..MaxBatchLen

Amounts == 0..MaxAmount

\* The characters of the strings given to shuffle alone.
ShuffleChars == {"a", "B", "1", "!"}

ShuffleInputs == UNION {[1..n -> ShuffleChars] : n \in 0..MaxStrLen}

(***************************************************************************)
(* State.                                                                  *)
(***************************************************************************)
VARIABLES
  pc,                  \* position of the running call
  top,                 \* the function that was called from outside
  amount, length, options, requirements,   \* arguments
  possibleCharacters, charSet, password,   \* locals of generatePassword
  str, arr, i,         \* argument and locals of shuffle
  result,              \* the string returned by shuffle and generatePassword
  passwordArray, count,                    \* locals of generateMultiplePasswords
  err,                 \* the error thrown
  cryptoValues,        \* random values obtained from crypto.getRandomValues
  mathRandomCalls      \* calls of Math.random

vars ==
  <<pc, top, amount, length, options, requirements, possibleCharacters,
    charSet, password, str, arr, i, result, passwordArray, count, err,
    cryptoValues, mathRandomCalls>>

Init ==
  /\ pc = "idle"
  /\ top = "none"
  /\ amount = 0
  /\ length = 0
  /\ options = DefaultOptions
  /\ requirements = DefaultRequirements
  /\ possibleCharacters = NoCharacters
  /\ charSet = <<>>
  /\ password = <<>>
  /\ str = <<>>
  /\ arr = <<>>
  /\ i = 0
  /\ result = <<>>
  /\ passwordArray = <<>>
  /\ count = 0
  /\ err = NoError
  /\ cryptoValues = 0
  /\ mathRandomCalls = 0

(***************************************************************************)
(* generatePassword.                                                       *)
(***************************************************************************)
\* Lines 87-124: the call, the defaults and the validation of the arguments.
generatePassword_Call ==
  /\ pc = "idle"
  /\ \E len \in Lengths, opt \in OptionsSet, req \in RequirementsSet :
       /\ top' = "generatePassword"
       /\ length' = len
       /\ options' = opt
       /\ requirements' = req
       /\ LET e == ValidateArguments(len, opt, req)
          IN /\ err' = e
             /\ pc' = IF e # NoError THEN "error" ELSE "pool"
  /\ UNCHANGED <<amount, possibleCharacters, charSet, password, str, arr, i,
                 result, passwordArray, count, cryptoValues, mathRandomCalls>>

\* Lines 126-162: the pools are built and checked.
generatePassword_BuildPool ==
  /\ pc = "pool"
  /\ LET chars == BuildPossibleCharacters(options)
         cs == BuildCharSet(chars)
         e == CheckPools(chars, cs, requirements)
     IN /\ possibleCharacters' = chars
        /\ charSet' = cs
        /\ err' = e
        /\ pc' = IF e # NoError THEN "error" ELSE "assemble"
  /\ UNCHANGED <<top, amount, length, options, requirements, password, str, arr,
                 i, result, passwordArray, count, cryptoValues, mathRandomCalls>>

\* Lines 163-171 up to the call of shuffle, and lines 26-30 of shuffle.
generatePassword_Assemble ==
  /\ pc = "assemble"
  /\ \E b \in AssemblyBytes(length, requirements) :
       LET p == AssemblePassword(possibleCharacters, charSet, length, requirements, b)
       IN /\ password' = p
          /\ cryptoValues' = cryptoValues + ValuesDrawn(b)
          /\ str' = p
          /\ arr' = p
          /\ i' = Len(p) - 1
  /\ pc' = "shuffle"
  /\ UNCHANGED <<top, amount, length, options, requirements, possibleCharacters,
                 charSet, result, passwordArray, count, err, mathRandomCalls>>

(***************************************************************************)
(* shuffle.                                                                *)
(***************************************************************************)
\* Lines 25-30: shuffle called with a string.
shuffle_Call ==
  /\ pc = "idle"
  /\ \E s \in ShuffleInputs :
       /\ str' = s
       /\ arr' = s
       /\ i' = Len(s) - 1
  /\ top' = "shuffle"
  /\ pc' = "shuffle"
  /\ UNCHANGED <<amount, length, options, requirements, possibleCharacters,
                 charSet, password, result, passwordArray, count, err,
                 cryptoValues, mathRandomCalls>>

\* Lines 31-34: one iteration of the loop.
shuffle_Step ==
  /\ pc = "shuffle"
  /\ i > 0
  /\ \E rnd \in RndRange(i) : arr' = ShuffleSwap(arr, i, rnd)
  /\ i' = i - 1
  /\ mathRandomCalls' = mathRandomCalls + 1
  /\ UNCHANGED <<pc, top, amount, length, options, requirements,
                 possibleCharacters, charSet, password, str, result,
                 passwordArray, count, err, cryptoValues>>

\* Line 35, and line 171 when generatePassword made the call.
shuffle_Return ==
  /\ pc = "shuffle"
  /\ ~(i > 0)
  /\ result' = arr
  /\ pc' = "returned"
  /\ UNCHANGED <<top, amount, length, options, requirements, possibleCharacters,
                 charSet, password, str, arr, i, passwordArray, count, err,
                 cryptoValues, mathRandomCalls>>

(***************************************************************************)
(* generateMultiplePasswords.                                              *)
(***************************************************************************)
\* Lines 195-198.
generateMultiplePasswords_Call ==
  /\ pc = "idle"
  /\ \E amt \in Amounts, len \in BatchLengths, opt \in BatchOptionsSet,
        req \in RequirementsSet :
       /\ top' = "generateMultiplePasswords"
       /\ amount' = amt
       /\ length' = len
       /\ options' = opt
       /\ requirements' = req
       /\ LET e == ValidateBatch(amt, len)
          IN /\ err' = e
             /\ pc' = IF e # NoError THEN "error" ELSE "loop"
  /\ passwordArray' = <<>>
  /\ count' = 0
  /\ UNCHANGED <<possibleCharacters, charSet, password, str, arr, i, result,
                 cryptoValues, mathRandomCalls>>

\* Lines 199-201: one iteration, the whole call of generatePassword included.
generateMultiplePasswords_Push ==
  /\ pc = "loop"
  /\ LoopContinues(count, amount)
  /\ LET e == GeneratePasswordError(length, options, requirements)
     IN IF e # NoError
          THEN /\ err' = e
               /\ pc' = "error"
               /\ UNCHANGED <<passwordArray, count>>
          ELSE /\ \E p \in GeneratePasswordReturns(length, options, requirements) :
                    passwordArray' = Append(passwordArray, p)
               /\ count' = count + 1
               /\ UNCHANGED <<pc, err>>
  /\ UNCHANGED <<top, amount, length, options, requirements, possibleCharacters,
                 charSet, password, str, arr, i, result, cryptoValues,
                 mathRandomCalls>>

\* Line 202.
generateMultiplePasswords_Return ==
  /\ pc = "loop"
  /\ ~LoopContinues(count, amount)
  /\ pc' = "returned"
  /\ UNCHANGED <<top, amount, length, options, requirements, possibleCharacters,
                 charSet, password, str, arr, i, result, passwordArray, count,
                 err, cryptoValues, mathRandomCalls>>

(***************************************************************************)
(* Specifications: a call of generatePassword, a call of shuffle on its    *)
(* own, and a call of generateMultiplePasswords.                           *)
(***************************************************************************)
Next ==
  \/ generatePassword_Call
  \/ generatePassword_BuildPool
  \/ generatePassword_Assemble
  \/ shuffle_Step
  \/ shuffle_Return

Spec == Init /\ [][Next]_vars

NextShuffle ==
  \/ shuffle_Call
  \/ shuffle_Step
  \/ shuffle_Return

SpecShuffle == Init /\ [][NextShuffle]_vars

NextBatch ==
  \/ generateMultiplePasswords_Call
  \/ generateMultiplePasswords_Push
  \/ generateMultiplePasswords_Return

SpecBatch == Init /\ [][NextBatch]_vars

(***************************************************************************)
(* Vocabulary of the properties, stated apart from the operators above.    *)
(***************************************************************************)
ToSet(s) == {s[k] : k \in 1..Len(s)}

\* Number of positions of s that hold a character of the set S.
CountIn(s, S) == Cardinality({k \in 1..Len(s) : s[k] \in S})

\* The similar set as the specification lists it.
ListedSimilar == {"i", "l", "L", "I", "|", "backtick", "o", "O", "0"}

\* The similar characters the documentation of options.similar names.
DocumentedSimilar == {"l", "I", "1", "O", "0"}

\* The pool of a class: its alphabet when the class is enabled, without the
\* characters of exclude and, when similar is false, without the similar set.
ClassPool(opt, key) ==
  IF opt[key]
    THEN SelectSeq(Alphabet(key),
                   LAMBDA c : /\ c \notin ToSet(opt.exclude)
                              /\ (opt.similar \/ c \notin ListedSimilar))
    ELSE <<>>

FullPool(opt) ==
  ClassPool(opt, "lowercase") \o ClassPool(opt, "uppercase")
    \o ClassPool(opt, "numbers") \o ClassPool(opt, "symbols")

SumOfMinimums(req) ==
  req.minLower + req.minUpper + req.minNumbers + req.minSymbols

NonNegativeMinimums(req) ==
  \A key \in KeySet : req[MinField(key)] >= 0

MinimumForDisabled(opt, req) ==
  \E key \in KeySet : req[MinField(key)] > 0 /\ ~opt[key]

MinimumForEmptyPool(opt, req) ==
  \E key \in KeySet : req[MinField(key)] > 0 /\ ClassPool(opt, key) = <<>>

\* An invalid configuration of generatePassword.
InvalidConfiguration(len, opt, req) ==
  \/ len < 1
  \/ ~NonNegativeMinimums(req)
  \/ SumOfMinimums(req) > len
  \/ MinimumForDisabled(opt, req)
  \/ MinimumForEmptyPool(opt, req)
  \/ FullPool(opt) = <<>>

\* The properties of one password.
ExactLength(p, len) == Len(p) = len

FromFullPool(p, opt) == ToSet(p) \subseteq ToSet(FullPool(opt))

MeetsMinimums(p, req) ==
  \A key \in KeySet : CountIn(p, ToSet(Alphabet(key))) >= req[MinField(key)]

SameCharacters(s, t) ==
  /\ Len(s) = Len(t)
  /\ \A c \in ToSet(s) \cup ToSet(t) : CountIn(s, {c}) = CountIn(t, {c})

Distinct(s) == \A k, m \in 1..Len(s) : k # m => s[k] # s[m]

Rearrangements(s) == {t \in [1..Len(s) -> ToSet(s)] : SameCharacters(s, t)}

RECURSIVE Factorial(_)
Factorial(n) == IF n <= 1 THEN 1 ELSE n * Factorial(n - 1)

InGeneratePassword == top = "generatePassword"

InShuffle == top = "shuffle"

InBatch == top = "generateMultiplePasswords"

C2_Minimums ==
  (InGeneratePassword /\ pc = "returned") => MeetsMinimums(result, requirements)

C2_Witness ==
  /\ InGeneratePassword /\ pc = "returned"
  /\ requirements.minUpper = 2
  /\ requirements.minNumbers = 1
  /\ CountIn(result, ToSet(uppercase)) = 2

\* C3: with non-negative minimums and a positive length, a sum of minimums
\* above length fails with the length-too-short error that names the sum;
\* a sum equal to length, every other check passing, does not fail, and the
\* password returned consists of the minimum blocks only (no filler).
C3_SumAgainstLength ==
  (InGeneratePassword /\ length >= 1 /\ NonNegativeMinimums(requirements)) =>
    /\ SumOfMinimums(requirements) > length =>
         /\ pc = "error"
         /\ err = TooShortError(SumOfMinimums(requirements))
    /\ (/\ SumOfMinimums(requirements) = length
        /\ ~InvalidConfiguration(length, options, requirements)) =>
         /\ pc # "error"
         /\ pc \in {"shuffle", "returned"} =>
              /\ Len(password) = SumOfMinimums(requirements)
              /\ \A key \in KeySet :
                   CountIn(password, ToSet(Alphabet(key))) = requirements[MinField(key)]
         /\ pc = "returned" =>
              /\ Len(result) = length
              /\ \A key \in KeySet :
                   CountIn(result, ToSet(Alphabet(key))) = requirements[MinField(key)]

C3_Witness ==
  /\ InGeneratePassword /\ pc = "returned"
  /\ length = 3
  /\ SumOfMinimums(requirements) = 3
  /\ requirements.minSymbols = 1

\* C4: a call of generatePassword with an invalid configuration never gets
\* past the checks, and when an error is thrown no random value has been
\* drawn, no shuffle step has been made and no password has been built.
C4_NoDrawBeforeError ==
  InGeneratePassword =>
    /\ pc = "error" =>
         /\ cryptoValues = 0
         /\ mathRandomCalls = 0
         /\ password = <<>>
         /\ result = <<>>
    /\ InvalidConfiguration(length, options, requirements) =>
         /\ pc \in {"pool", "error"}
         /\ pc = "pool" => CheckPools(BuildPossibleCharacters(options),
                                      BuildCharSet(BuildPossibleCharacters(options)),
                                      requirements) # NoError
         /\ cryptoValues = 0
         /\ mathRandomCalls = 0
    /\ pc = "returned" => ~InvalidConfiguration(length, options, requirements)

C4_Witness ==
  /\ InGeneratePassword /\ pc = "error"
  /\ err = ExcludedError
  /\ requirements.minNumbers = 1
  /\ options.numbers

\* C5 as stated: whenever the full pool is empty after filtering, the call
\* fails with the "character pool empty" range error, for all well-formed
\* requirements, a positive minimum included.
C5_EmptyPoolAlwaysRangeError ==
  (/\ InGeneratePassword
   /\ pc \in {"error", "returned"}
   /\ length >= 1
   /\ NonNegativeMinimums(requirements)
   /\ SumOfMinimums(requirements) <= length
   /\ FullPool(options) = <<>>) =>
    (pc = "error" /\ err = EmptyPoolError)

\* C5 as amended: whenever the full pool is empty after filtering, with a
\* positive length and non-negative minimums whose sum is at most length,
\* the call fails; the error is the "character pool empty" range error when
\* no positive minimum is requested for a disabled class (a positive minimum
\* of an enabled class whose pool is filtered to nothing included), and the
\* "options do not meet the requirements" error otherwise.
C5_EmptyPoolError ==
  (/\ InGeneratePassword
   /\ length >= 1
   /\ NonNegativeMinimums(requirements)
   /\ SumOfMinimums(requirements) <= length
   /\ FullPool(options) = <<>>) =>
    /\ pc \in {"pool", "error"}
    /\ pc = "error" =>
         err = IF MinimumForDisabled(options, requirements)
                 THEN OptionsError ELSE EmptyPoolError

C5_Witness ==
  /\ InGeneratePassword /\ pc = "error"
  /\ err = EmptyPoolError
  /\ options.numbers
  /\ requirements.minNumbers = 1

\* C7: every random choice of a call of generatePassword comes from
\* crypto.getRandomValues: Math.random is never called.
C7_SecureSourceOnly ==
  InGeneratePassword => mathRandomCalls = 0

\* C8: when options.similar is false, the password returned holds none of
\* the characters l, I, 1, O and 0.
C8_NoDocumentedSimilar ==
  (InGeneratePassword /\ pc = "returned" /\ ~options.similar) =>
    ToSet(result) \cap DocumentedSimilar = {}

(***************************************************************************)
(* Properties of generateMultiplePasswords (specification SpecBatch).      *)
(***************************************************************************)
BatchReturnsValidPasswords ==
  pc = "returned" =>
    /\ amount >= 1
    /\ ~InvalidConfiguration(length, options, requirements)
    /\ Len(passwordArray) = amount
    /\ \A k \in 1..Len(passwordArray) :
         /\ ExactLength(passwordArray[k], length)
         /\ FromFullPool(passwordArray[k], options)
         /\ MeetsMinimums(passwordArray[k], requirements)

BatchNeverPartial ==
  /\ pc = "error" => (passwordArray = <<>> /\ count = 0)
  /\ (amount >= 1 /\ ~InvalidConfiguration(length, options, requirements)) =>
       pc # "error"
  /\ InvalidConfiguration(length, options, requirements) =>
       (pc \in {"loop", "error"} /\ passwordArray = <<>> /\ count = 0)

AmountError ==
  [type |-> "RangeError", name |-> "Amount of passwords",
   msg |-> "must be equal at least", n |-> 1]

LengthError ==
  [type |-> "RangeError", name |-> "Password length",
   msg |-> "must be equal at least", n |-> 1]

\* C6 as stated: a positive amount and a valid configuration give exactly
\* amount passwords, each with the properties of one password; an amount
\* below 1 fails with the invalid-amount error; an invalid configuration
\* fails without a partially filled batch being returned.
C6_BatchAmountErrorFirst ==
  InBatch =>
    /\ BatchReturnsValidPasswords
    /\ BatchNeverPartial
    /\ amount < 1 => (pc = "error" /\ err = AmountError)

\* C6 as amended: a positive amount and a valid configuration give exactly
\* amount passwords, each with the properties of one password; an amount
\* below 1 fails with the invalid-amount error when length is at least 1,
\* and with the invalid-length error when length is below 1, whatever the
\* amount; an invalid configuration fails without a partially filled batch
\* being returned.
C6_Batch ==
  InBatch =>
    /\ BatchReturnsValidPasswords
    /\ BatchNeverPartial
    /\ (amount < 1 /\ length >= 1) => (pc = "error" /\ err = AmountError)
    /\ length < 1 => (pc = "error" /\ err = LengthError)

C6_Witness ==
  /\ InBatch /\ pc = "returned"
  /\ amount = 2
  /\ length = 1
  /\ requirements.minNumbers = 1
  /\ passwordArray[1] # passwordArray[2]

(***************************************************************************)
(* Properties of shuffle (specification SpecShuffle).                      *)
(***************************************************************************)
\* C9: shuffle returns a permutation of the characters of its input: the
\* same length and every character as many times, hence the same number of
\* characters of each class; the array holds such a permutation after every
\* iteration.
C9_ShufflePermutes ==
  (pc \in {"shuffle", "returned"} /\ ~InBatch) =>
    /\ SameCharacters(arr, str)
    /\ pc = "returned" =>
         /\ SameCharacters(result, str)
         /\ \A key \in KeySet :
              CountIn(result, ToSet(Alphabet(key))) = CountIn(str, ToSet(Alphabet(key)))

C9_Witness ==
  /\ InShuffle /\ pc = "returned"
  /\ Len(str) = 3
  /\ ~Distinct(str)
  /\ result # str

\* The loop position, the number of choices made, and the choice sequences
\* of an input of distinct characters.
FisherYatesStates ==
  InShuffle =>
    LET n == Len(str)
    IN /\ pc = "shuffle" =>
            /\ i \in (IF n = 0 THEN {-1} ELSE 0..(n - 1))
            /\ mathRandomCalls = (n - 1) - i
       /\ pc = "returned" => mathRandomCalls = (IF n = 0 THEN 0 ELSE n - 1)
       /\ Distinct(str) =>
            /\ Cardinality(ChoiceSeqs(n)) = Factorial(n)
            /\ ShuffleResults(str) = Rearrangements(str)
            /\ pc = "returned" =>
                 Cardinality({c \in ChoiceSeqs(n) : ShuffleWith(str, c) = result}) = 1

\* One iteration: positions i and j of the array are exchanged for some j
\* in 0..i, the other positions keep their characters, and i decreases by 1.
FisherYatesStep ==
  (InShuffle /\ pc = "shuffle" /\ pc' = "shuffle") =>
    /\ i >= 1
    /\ i' = i - 1
    /\ \E j \in 0..i :
         /\ arr'[i + 1] = arr[j + 1]
         /\ arr'[j + 1] = arr[i + 1]
         /\ \A k \in 1..Len(arr) : (k # i + 1 /\ k # j + 1) => arr'[k] = arr[k]
         /\ Len(arr') = Len(arr)

\* C10: shuffle of n characters iterates i from n-1 down to 1; each
\* iteration chooses j in 0..i and exchanges positions i and j; for an input
\* of distinct characters each of the n! permutations is returned under
\* exactly one sequence of choices.
C10_FisherYates == [](FisherYatesStates) /\ [][FisherYatesStep]_vars

C10_Witness ==
  /\ InShuffle /\ pc = "returned"
  /\ str = <<"a", "B", "1">>
  /\ result = <<"1", "B", "a">>

====
